---------------------------- MODULE Spec2Model ----------------------------
(***************************************************************************)
(* Scheduling and subprocess orchestration of py_borg_back:                *)
(* Repo (try_run_backup, run_backup_now, the three phases,                 *)
(* _run_async_subprocess, stop_subprocess) and BackupManager (run, the     *)
(* fan-outs, shutdown), as asyncio runs them: one event loop, every task   *)
(* running from one suspension point (an await that really waits) to the   *)
(* next.  Time is counted in minutes since the Unix epoch.                 *)
(***************************************************************************)
EXTENDS Integers, Sequences, FiniteSets

\* ------------------------------------------------------------- bounds
NumRepos == 2
\* minute (since the epoch) at which the Repo objects are constructed
StartTime == 15
\* the clock is followed for MaxTime minutes after construction
MaxTime == 3
\* every scheduled repository uses the cron expression "every CronPeriod minutes"
CronPeriod == 2
\* number of termination signals delivered (one shutdown task each)
MaxSignals == 2
\* largest exit status and largest signal number of a child, where the
\* results of the phases range over all integers of that size
MaxCode == 2

\* ------------------------------------------------- program constants
\* datetime(1970, 1, 1, tzinfo=timezone.utc)
Epoch == 0
\* timedelta(minutes=10)
ThrottleMinutes == 10
\* return_code = 1: the result of a run that could not be spawned or read
FailureCode == 1
\* Process.returncode of a child ended by the SIGTERM of terminate()
SigTermCode == -15

Repos == 1..NumRepos
Tasks == 1..MaxSignals
\* exit codes a borg child may end with by itself
ExitCodes == {0, 2}
Modes == {"daemon", "break_locks", "single_cmd", "backup_once", "recreate_once"}

VARIABLES
  args,                  \* the parsed command line: [mode]
  enabled,               \* Repo.enabled
  cron_interval_str,     \* Repo.cron_interval_str: TRUE a cron string, FALSE the sentinel False
  prune,                 \* Repo.prune
  compact,               \* Repo.compact
  should_exit,           \* the module-level stop flag
  now,                   \* what datetime.now() returns
  next_run,              \* Repo.next_run: [set, t]; set is FALSE while the attribute does not exist
  next_run_message_time, \* Repo.next_run_message_time: [aware, t]
  current_subprocess,    \* Repo.current_subprocess: "None" or "process"
  proc,                  \* the child of the repository's running _run_async_subprocess
  orphans,               \* TRUE: a child _run_async_subprocess returned without waiting for still runs
  mainPc,                \* position of the task running main()
  op,                    \* the BackupManager method main() is in
  cur,                   \* index of `repo` in that method's for loop
  phase,                 \* the phase run_backup_now / run_cmd / break_locks is at
  res,                   \* value returned by the last phase call
  ret_create,            \* locals of run_backup_now
  ret_prune,
  sd,                    \* the shutdown tasks: [pc, i]
  started,               \* history: phases whose spawn was requested in the current run_backup_now
  results,               \* history: results of the phases of the current run_backup_now
  retNow,                \* history: [set, v], the value the last run_backup_now returned
  sdInCreate,            \* history: shutdown() was requested while the current run's create was in flight
  lastTry,               \* history: the last try_run_backup of this sweep: [repo, branch, ret]
  fanout,                \* history: the repositories whose run_cmd / break_locks the manager has called
  config_args,           \* the object main() builds from the command line: [dry_run, log_level]
  repo_config,           \* config["repo"][name] of the repository under construction: key -> [present, v]
  general_config,        \* config["repo_general"]: key -> [present, v]
  loaded,                \* what _load_config_key gave for each key: [kind, v]
  dry_run                \* Repo.dry_run: [set, v]

vars == <<args, enabled, cron_interval_str, prune, compact, should_exit, now,
          next_run, next_run_message_time, current_subprocess, proc, orphans,
          mainPc, op, cur, phase, res, ret_create, ret_prune, sd,
          started, results, retNow, sdInCreate, lastTry, fanout,
          config_args, repo_config, general_config, loaded, dry_run>>

\* what the construction of a Repo reads and writes
construction == <<config_args, repo_config, general_config, loaded, dry_run>>
config == <<args, enabled, cron_interval_str, prune, compact, construction>>
history == <<started, results, retNow, sdInCreate, lastTry, fanout>>

\* ------------------------------------------------------ faulty variants
\* definitions that differ from the code in one decision each; a property
\* that is meant to depend on that decision fails when the variant is used
\* a comparison that accepts one naive and one aware operand
DtLessLenient(a, b) == [err |-> FALSE, val |-> a.t < b.t]
NeverDisabled(r) == FALSE
\* break_locks called on every repository
CalledOnAll(r) == TRUE
AlwaysScheduled(r) == FALSE
SkipsNothing(r, ph) == FALSE
ExitOnFailure(result) == should_exit \/ result # 0
\* the next run computed from the time the run became due
FromDueTime(r) == next_run[r].t
\* create_subprocess_exec raises and no handler catches the exception
SpawnFailPropagates ==
  /\ mainPc = "spawning"
  /\ mainPc' = "raised"
  /\ UNCHANGED <<config, should_exit, now, next_run, next_run_message_time,
                 current_subprocess, proc, orphans, op, cur, phase, res,
                 ret_create, ret_prune, sd, history>>
AggLast(c, p, k) == k
\* the command line's dry-run flag left out of Repo.dry_run
NoOverride(v) == v
\* a run_backup_now that does not look at the stop flag when it is entered
EntryIgnored == FALSE
\* a stop_subprocess that terminates without looking at the handle
AlwaysTerminates(r) == TRUE
\* a stop_subprocess that never waits for the exit of the child
HeldNone(i) == {}
\* _run_async_subprocess returning without clearing the handle
HandleKept == "process"

\* ------------------------------------------------------ pure helpers
\* croniter(expr, base).get_next(datetime): the first match strictly after base
NextDue(base) == ((base \div CronPeriod) + 1) * CronPeriod

\* a naive datetime (datetime.now()) and an aware one (tzinfo=timezone.utc)
Naive(t) == [aware |-> FALSE, t |-> t]
Aware(t) == [aware |-> TRUE, t |-> t]
\* datetime + timedelta keeps the tzinfo
DtAdd(d, minutes) == [aware |-> d.aware, t |-> d.t + minutes]
\* datetime < datetime: Python raises TypeError for one naive and one aware operand
DtLess(a, b) ==
  IF a.aware # b.aware
    THEN [err |-> TRUE, val |-> FALSE]
    ELSE [err |-> FALSE, val |-> a.t < b.t]

NoProc == [st |-> "none", out |-> FALSE, err |-> FALSE, term |-> FALSE, rc |-> 0]
NewProc == [st |-> "run", out |-> FALSE, err |-> FALSE, term |-> FALSE, rc |-> 0]

\* a return value not (yet) produced, and one that was
NoValue == [set |-> FALSE, v |-> 0]
Value(v) == [set |-> TRUE, v |-> v]

NoTry == [repo |-> 0, branch |-> "none", ret |-> NoValue]
Tried(r, branch, ret) == [repo |-> r, branch |-> branch, ret |-> ret]

SumSeq(s) == IF Len(s) = 0 THEN 0
             ELSE IF Len(s) = 1 THEN s[1]
             ELSE IF Len(s) = 2 THEN s[1] + s[2]
             ELSE s[1] + s[2] + s[3]

\* ---------------------------------------------------------------- Init
\* the keys of the configuration whose resolution is followed
Keys == {"log_level", "keep_daily", "dry_run", "ssh_key_file"}
\* a key that is missing from a table, and one that is there
Absent == [present |-> FALSE, v |-> "None"]
Present(v) == [present |-> TRUE, v |-> v]
\* _load_config_key has not been called for the key
Unloaded == [kind |-> "unset", v |-> "None"]

\* the settings are varied in the run modes that read them: the schedule in
\* try_run_backup (the daemon loop, which the break-locks mode reaches too),
\* the policy flags in run_backup_now; elsewhere they are left at True
ReadSettings ==
  /\ args.mode \in {"single_cmd", "backup_once", "recreate_once"} =>
       \A r \in Repos : cron_interval_str[r] = TRUE
  /\ args.mode = "single_cmd" =>
       \A r \in Repos : prune[r] /\ compact[r]

InitRun ==
  /\ args \in [mode : Modes]
  /\ enabled \in [Repos -> BOOLEAN]
  /\ cron_interval_str \in [Repos -> BOOLEAN]
  /\ prune \in [Repos -> BOOLEAN]
  /\ compact \in [Repos -> BOOLEAN]
  /\ ReadSettings
  /\ should_exit = FALSE
  /\ now = StartTime
  /\ next_run = [r \in Repos |-> IF cron_interval_str[r] # FALSE
                                   THEN [set |-> TRUE, t |-> NextDue(StartTime)]
                                   ELSE [set |-> FALSE, t |-> 0]]
  /\ next_run_message_time = [r \in Repos |-> Aware(Epoch)]
  /\ current_subprocess = [r \in Repos |-> "None"]
  /\ proc = [r \in Repos |-> NoProc]
  /\ orphans = [r \in Repos |-> FALSE]
  /\ mainPc = "main"
  /\ op = "none"
  /\ cur = 1
  /\ phase = "create"
  /\ res = 0
  /\ ret_create = 0
  /\ ret_prune = 0
  /\ sd = [t \in Tasks |-> [pc |-> "none", i |-> 0]]
  /\ started = <<>>
  /\ results = <<>>
  /\ retNow = NoValue
  /\ sdInCreate = FALSE
  /\ lastTry = NoTry
  /\ fanout = <<>>

\* the inputs of the construction are not followed while the program runs
ConstructionOver ==
  /\ config_args = [dry_run |-> FALSE, log_level |-> "None"]
  /\ repo_config = [k \in Keys |-> Absent]
  /\ general_config = [k \in Keys |-> Absent]
  /\ loaded = [k \in Keys |-> Unloaded]
  /\ dry_run = [set |-> FALSE, v |-> FALSE]

Init == InitRun /\ ConstructionOver


\* ------------------------------------------------- Repo: small methods
\* Repo._not_enabled
NotEnabled(r) == ~enabled[r]

\* the test `self.cron_interval_str == False` of try_run_backup
Unscheduled(r) == cron_interval_str[r] = FALSE

\* the condition of the not-due branch of try_run_backup,
\*   now < self.next_run and self.next_run_message_time + timedelta(minutes=10) < now
\* as Python evaluates it: `and` reads its second operand only when the first
\* is true; err tells that the evaluation raised (a missing attribute, or the
\* comparison of an aware with a naive datetime).
NotDueCond(r) ==
  IF ~next_run[r].set
    THEN [err |-> TRUE, val |-> FALSE]
    ELSE IF ~(now < next_run[r].t)
      THEN [err |-> FALSE, val |-> FALSE]
      ELSE DtLess(DtAdd(next_run_message_time[r], ThrottleMinutes), Naive(now))

\* the sums run_backup_now returns
AggCreate(c) == c
AggPrune(c, p) == c + p
AggAll(c, p, k) == c + p + k

\* the test `if should_exit:` run_backup_now makes after a phase has
\* returned `result`: the result is not looked at
ExitRequested(result) == should_exit

\* the policy test of run_backup_prune / run_backup_compact
PolicySkips(r, ph) ==
  \/ ph = "prune" /\ ~prune[r]
  \/ ph = "compact" /\ ~compact[r]

\* run_backup_create / run_backup_prune / run_backup_compact return 0 before
\* building any command
PhaseSkipped(r, ph) == NotEnabled(r) \/ PolicySkips(r, ph)

\* the task of main() is waiting in an await, so other tasks may run
MainSuspended == mainPc \in {"spawning", "drain", "wait", "sleep"}
\* main() is over: asyncio.run() cancels what is left and the process ends
MainOver == mainPc \in {"finished", "raised"}

\* a shutdown task the exit of a child made ready runs next: call_soon is
\* first in, first out, so it runs after main() when main() waited for the
\* same exit, and before the loop looks at anything that happens later
SdPending ==
  /\ \E t \in Tasks : sd[t].pc = "woken"
  /\ MainSuspended
  /\ ~(mainPc = "wait" /\ proc[cur].st = "exited")

\* the history of a run_backup_now is kept until the call has returned
ResetRunHistory ==
  /\ started' = <<>>
  /\ results' = <<>>
  /\ retNow' = NoValue
  /\ sdInCreate' = FALSE

\* the locals of a method that has returned
ResetLocals ==
  /\ phase' = "create"
  /\ res' = 0
  /\ ret_create' = 0
  /\ ret_prune' = 0

\* ------------------------------------------------------------ main()
\* main(): the run-mode dispatch.  --run-break-locks is an `if` of its own, so
\* after it the chain that follows is evaluated too.
MainDispatch ==
  /\ mainPc = "main"
  /\ mainPc' = IF args.mode = "daemon" THEN "while" ELSE "for"
  /\ cur' = 1
  /\ op' = IF args.mode = "break_locks" THEN "bl"
           ELSE IF args.mode = "single_cmd" THEN "cmd"
           ELSE IF args.mode \in {"backup_once", "recreate_once"} THEN "backup"
           ELSE "daemon"
  /\ UNCHANGED <<config, should_exit, now, next_run, next_run_message_time,
                 current_subprocess, proc, orphans, phase, res, ret_create,
                 ret_prune, sd, history>>

\* main() after `await backup_manager.break_locks()`: no other mode flag is
\* set, so the else branch runs the daemon loop
MainAfterBreakLocks ==
  /\ mainPc = "main2"
  /\ mainPc' = "while"
  /\ cur' = 1
  /\ op' = "daemon"
  /\ UNCHANGED <<config, should_exit, now, next_run, next_run_message_time,
                 current_subprocess, proc, orphans, phase, res, ret_create,
                 ret_prune, sd, history>>

\* BackupManager.run: the test of `while not should_exit`
RunLoopCheck ==
  /\ mainPc = "while"
  /\ IF should_exit
       THEN mainPc' = "finished" /\ op' = "none"
       ELSE mainPc' = "for" /\ op' = "daemon"
  /\ cur' = 1
  /\ UNCHANGED <<config, should_exit, now, next_run, next_run_message_time,
                 current_subprocess, proc, orphans, phase, res, ret_create,
                 ret_prune, sd, history>>

\* Repo.try_run_backup up to its first await, called by BackupManager.run
TryRunBackup ==
  /\ mainPc = "for"
  /\ op = "daemon"
  /\ cur \in Repos
  /\ IF NotEnabled(cur)
       THEN /\ lastTry' = Tried(cur, "disabled", Value(0))
            /\ cur' = cur + 1
            /\ UNCHANGED <<mainPc, next_run_message_time>>
       ELSE IF Unscheduled(cur)
       THEN /\ lastTry' = Tried(cur, "unscheduled", Value(0))
            /\ cur' = cur + 1
            /\ UNCHANGED <<mainPc, next_run_message_time>>
       ELSE IF NotDueCond(cur).err
       THEN /\ lastTry' = Tried(cur, "raised", NoValue)
            /\ mainPc' = "raised"
            /\ UNCHANGED <<cur, next_run_message_time>>
       ELSE IF NotDueCond(cur).val
       THEN /\ lastTry' = Tried(cur, "notdue", Value(0))
            /\ next_run_message_time' =
                 [next_run_message_time EXCEPT ![cur] = Naive(now)]
            /\ cur' = cur + 1
            /\ UNCHANGED mainPc
       ELSE /\ lastTry' = Tried(cur, "run", NoValue)
            /\ mainPc' = "now"
            /\ UNCHANGED <<cur, next_run_message_time>>
  /\ UNCHANGED <<config, should_exit, now, next_run, current_subprocess, proc,
                 orphans, op, phase, res, ret_create, ret_prune, sd,
                 started, results, retNow, sdInCreate, fanout>>

\* BackupManager.run_backup_now: `await repo.run_backup_now(recreate)`
ManagerRunBackupNow ==
  /\ mainPc = "for"
  /\ op = "backup"
  /\ cur \in Repos
  /\ mainPc' = "now"
  /\ UNCHANGED <<config, should_exit, now, next_run, next_run_message_time,
                 current_subprocess, proc, orphans, op, cur, phase, res,
                 ret_create, ret_prune, sd, history>>

\* BackupManager.run_cmd and Repo.run_cmd up to the spawn
ManagerRunCmd ==
  /\ mainPc = "for"
  /\ op = "cmd"
  /\ cur \in Repos
  /\ mainPc' = "spawning"
  /\ phase' = "custom"
  /\ fanout' = Append(fanout, cur)
  /\ UNCHANGED <<config, should_exit, now, next_run, next_run_message_time,
                 current_subprocess, proc, orphans, op, cur, res,
                 ret_create, ret_prune, sd, started, results, retNow,
                 sdInCreate, lastTry>>

\* the test `if repo.enabled:` of BackupManager.break_locks
BreakLocksCalled(r) == enabled[r]

\* BackupManager.break_locks and Repo.break_locks up to the spawn
ManagerBreakLocks ==
  /\ mainPc = "for"
  /\ op = "bl"
  /\ cur \in Repos
  /\ IF BreakLocksCalled(cur)
       THEN /\ mainPc' = "spawning" /\ phase' = "break-lock" /\ cur' = cur
            /\ fanout' = Append(fanout, cur)
       ELSE /\ mainPc' = "for" /\ phase' = phase /\ cur' = cur + 1
            /\ UNCHANGED fanout
  /\ UNCHANGED <<config, should_exit, now, next_run, next_run_message_time,
                 current_subprocess, proc, orphans, op, res,
                 ret_create, ret_prune, sd, started, results, retNow,
                 sdInCreate, lastTry>>

\* the end of a manager method's `for repo in self.repos`
ForEnd ==
  /\ mainPc = "for"
  /\ op \in {"daemon", "backup", "cmd", "bl"}
  /\ cur = NumRepos + 1
  /\ mainPc' = IF op = "daemon" THEN "sleep"
               ELSE IF op = "bl" THEN "main2" ELSE "finished"
  /\ op' = IF op = "daemon" THEN op ELSE "none"
  /\ cur' = 1
  /\ lastTry' = NoTry
  /\ UNCHANGED <<config, should_exit, now, next_run, next_run_message_time,
                 current_subprocess, proc, orphans, phase, res, ret_create,
                 ret_prune, sd, started, results, retNow, sdInCreate, fanout>>

\* BackupManager.run: `await asyncio.sleep(3)` is over
SleepDone ==
  /\ mainPc = "sleep"
  /\ ~SdPending
  /\ mainPc' = "while"
  /\ UNCHANGED <<config, should_exit, now, next_run, next_run_message_time,
                 current_subprocess, proc, orphans, op, cur, phase, res,
                 ret_create, ret_prune, sd, history>>

\* --------------------------------------------------- run_backup_now
\* the first test of Repo.run_backup_now, `if should_exit: return 0`
EnteredStopped == should_exit

\* Repo.run_backup_now: entry and the first `if should_exit`
RunBackupNowEnter ==
  /\ mainPc = "now"
  /\ started' = <<>>
  /\ results' = <<>>
  /\ sdInCreate' = FALSE
  /\ IF EnteredStopped
       THEN /\ retNow' = Value(0)
            /\ mainPc' = "now_ret"
       ELSE /\ retNow' = NoValue
            /\ mainPc' = "phase"
  /\ phase' = "create"
  /\ UNCHANGED <<config, should_exit, now, next_run, next_run_message_time,
                 current_subprocess, proc, orphans, op, cur, res,
                 ret_create, ret_prune, sd, lastTry, fanout>>

\* run_backup_create / run_backup_prune / run_backup_compact up to the call of
\* _run_async_subprocess, and that method up to `await create_subprocess_exec`
RunPhase ==
  /\ mainPc = "phase"
  /\ IF PhaseSkipped(cur, phase)
       THEN /\ res' = 0
            /\ mainPc' = "after"
            /\ UNCHANGED started
       ELSE /\ mainPc' = "spawning"
            /\ started' = Append(started, phase)
            /\ UNCHANGED res
  /\ UNCHANGED <<config, should_exit, now, next_run, next_run_message_time,
                 current_subprocess, proc, orphans, op, cur, phase,
                 ret_create, ret_prune, sd, results, retNow, sdInCreate,
                 lastTry, fanout>>

\* the caller of a phase gets its result: run_backup_now adds it up and tests
\* should_exit before the next phase; run_cmd and break_locks return it to
\* the manager's loop
AfterPhase ==
  /\ mainPc = "after"
  /\ IF phase = "create"
       THEN /\ ret_create' = res
            /\ results' = Append(results, res)
            /\ IF ExitRequested(res)
                 THEN mainPc' = "now_ret" /\ retNow' = Value(AggCreate(res)) /\ phase' = phase
                 ELSE mainPc' = "phase" /\ retNow' = retNow /\ phase' = "prune"
            /\ UNCHANGED <<ret_prune, cur>>
       ELSE IF phase = "prune"
       THEN /\ ret_prune' = res
            /\ results' = Append(results, res)
            /\ IF ExitRequested(res)
                 THEN mainPc' = "now_ret" /\ retNow' = Value(AggPrune(ret_create, res)) /\ phase' = phase
                 ELSE mainPc' = "phase" /\ retNow' = retNow /\ phase' = "compact"
            /\ UNCHANGED <<ret_create, cur>>
       ELSE IF phase = "compact"
       THEN /\ results' = Append(results, res)
            /\ mainPc' = "now_ret"
            /\ retNow' = Value(AggAll(ret_create, ret_prune, res))
            /\ UNCHANGED <<ret_create, ret_prune, cur, phase>>
       ELSE /\ mainPc' = "for"
            /\ cur' = cur + 1
            /\ phase' = "create"
            /\ UNCHANGED <<ret_create, ret_prune, results, retNow>>
  /\ res' = 0
  /\ UNCHANGED <<config, should_exit, now, next_run, next_run_message_time,
                 current_subprocess, proc, orphans, op, sd, started,
                 sdInCreate, lastTry, fanout>>

\* the base time of the croniter that recomputes next_run after a run:
\* datetime.now(), read when run_backup_now has returned
RecomputeBase(r) == now

\* run_backup_now has returned: try_run_backup recomputes next_run from
\* datetime.now() and returns the value; BackupManager.run_backup_now drops it
RunBackupNowReturn ==
  /\ mainPc = "now_ret"
  /\ mainPc' = "for"
  /\ cur' = cur + 1
  /\ IF op = "daemon"
       THEN /\ next_run' = [next_run EXCEPT ![cur] =
                              [set |-> TRUE, t |-> NextDue(RecomputeBase(cur))]]
            /\ lastTry' = Tried(cur, "run", retNow)
       ELSE UNCHANGED <<next_run, lastTry>>
  /\ ResetLocals
  /\ ResetRunHistory
  /\ UNCHANGED <<config, should_exit, now, next_run_message_time,
                 current_subprocess, proc, orphans, op, sd, fanout>>

\* ---------------------------------------------- _run_async_subprocess
\* `self.current_subprocess = None`, the statement before every return of
\* _run_async_subprocess
HandleAtReturn == "None"

\* `await asyncio.subprocess.create_subprocess_exec(...)` returns the process
SpawnOk ==
  /\ mainPc = "spawning"
  /\ ~SdPending
  /\ proc' = [proc EXCEPT ![cur] = NewProc]
  /\ mainPc' = "drain"
  /\ UNCHANGED <<config, should_exit, now, next_run, next_run_message_time,
                 current_subprocess, orphans, op, cur, phase, res,
                 ret_create, ret_prune, sd, history>>

\* create_subprocess_exec raises (binary missing, permission denied): the
\* except branch, then `self.current_subprocess = None; return return_code`
SpawnFail ==
  /\ mainPc = "spawning"
  /\ ~SdPending
  /\ current_subprocess' = [current_subprocess EXCEPT ![cur] = HandleAtReturn]
  /\ res' = FailureCode
  /\ mainPc' = "after"
  /\ UNCHANGED <<config, should_exit, now, next_run, next_run_message_time,
                 proc, orphans, op, cur, phase, ret_create, ret_prune, sd,
                 history>>

\* read_stream(process.stdout, ...) reads the end of the stream and returns
DrainStdout(r) ==
  /\ ~MainOver
  /\ ~SdPending
  /\ proc[r].st # "none"
  /\ ~proc[r].out
  /\ proc' = [proc EXCEPT ![r].out = TRUE]
  /\ UNCHANGED <<config, should_exit, now, next_run, next_run_message_time,
                 current_subprocess, orphans, mainPc, op, cur, phase, res,
                 ret_create, ret_prune, sd, history>>

\* read_stream(process.stderr, ...) reads the end of the stream and returns
DrainStderr(r) ==
  /\ ~MainOver
  /\ ~SdPending
  /\ proc[r].st # "none"
  /\ ~proc[r].err
  /\ proc' = [proc EXCEPT ![r].err = TRUE]
  /\ UNCHANGED <<config, should_exit, now, next_run, next_run_message_time,
                 current_subprocess, orphans, mainPc, op, cur, phase, res,
                 ret_create, ret_prune, sd, history>>

\* a read_stream raises before the end of its stream (readline: a line over
\* the StreamReader limit; handle_line: bytes that are not UTF-8): gather
\* passes the exception on, the except branch logs it, and the method returns
\* return_code = 1 without waiting for the child, which may still be running
DrainFail ==
  /\ mainPc = "drain"
  /\ ~SdPending
  /\ ~(proc[cur].out /\ proc[cur].err)
  /\ orphans' = [orphans EXCEPT ![cur] = @ \/ proc[cur].st = "run"]
  /\ proc' = [proc EXCEPT ![cur] = NoProc]
  /\ current_subprocess' = [current_subprocess EXCEPT ![cur] = HandleAtReturn]
  /\ res' = FailureCode
  /\ mainPc' = "after"
  /\ UNCHANGED <<config, should_exit, now, next_run, next_run_message_time,
                 op, cur, phase, ret_create, ret_prune, sd, history>>

\* what _run_async_subprocess returns for a child that has exited
ReturnCode(p) == p.rc

\* asyncio.gather returns: `self.current_subprocess = process`, then
\* `await process.wait()`, which does not wait for a child already reaped
GatherDone ==
  /\ mainPc = "drain"
  /\ ~SdPending
  /\ proc[cur].out /\ proc[cur].err
  /\ IF proc[cur].st = "exited"
       THEN /\ res' = ReturnCode(proc[cur])
            /\ proc' = [proc EXCEPT ![cur] = NoProc]
            /\ current_subprocess' = [current_subprocess EXCEPT ![cur] = HandleAtReturn]
            /\ mainPc' = "after"
       ELSE /\ current_subprocess' = [current_subprocess EXCEPT ![cur] = "process"]
            /\ mainPc' = "wait"
            /\ UNCHANGED <<res, proc>>
  /\ UNCHANGED <<config, should_exit, now, next_run, next_run_message_time,
                 orphans, op, cur, phase, ret_create, ret_prune, sd, history>>

\* `await process.wait()` returns: the summary is logged, then
\* `return_code = process.returncode; self.current_subprocess = None; return`
WaitDone ==
  /\ mainPc = "wait"
  /\ proc[cur].st = "exited"
  /\ res' = ReturnCode(proc[cur])
  /\ proc' = [proc EXCEPT ![cur] = NoProc]
  /\ current_subprocess' = [current_subprocess EXCEPT ![cur] = HandleAtReturn]
  /\ mainPc' = "after"
  /\ UNCHANGED <<config, should_exit, now, next_run, next_run_message_time,
                 orphans, op, cur, phase, ret_create, ret_prune, sd, history>>

\* ------------------------------------------------------ the environment
\* the child of repository r exits; the tasks waiting in stop_subprocess for
\* it are made ready
ProcExit(r) ==
  /\ ~MainOver
  /\ ~SdPending
  /\ proc[r].st = "run"
  /\ \E code \in ExitCodes \cup (IF proc[r].term THEN {SigTermCode} ELSE {}) :
       proc' = [proc EXCEPT ![r].st = "exited", ![r].rc = code]
  /\ sd' = [t \in Tasks |-> IF sd[t].pc = "waiting" /\ sd[t].i = r
                              THEN [sd[t] EXCEPT !.pc = "woken"] ELSE sd[t]]
  /\ UNCHANGED <<config, should_exit, now, next_run, next_run_message_time,
                 current_subprocess, orphans, mainPc, op, cur, phase, res,
                 ret_create, ret_prune, history>>

\* the last child of repository r that was left behind exits
OrphanExit(r) ==
  /\ ~MainOver
  /\ ~SdPending
  /\ orphans[r]
  /\ orphans' = [orphans EXCEPT ![r] = FALSE]
  /\ UNCHANGED <<config, should_exit, now, next_run, next_run_message_time,
                 current_subprocess, proc, mainPc, op, cur, phase, res,
                 ret_create, ret_prune, sd, history>>

\* a minute passes.  The clock is followed in daemon mode: it moves while
\* main() waits, has not started, or is over (the schedule goes on when the
\* process is gone); the stretches between two awaits take no time.  The
\* break-locks mode is followed within the minute of its start.
Tick ==
  /\ MainSuspended \/ mainPc = "main" \/ MainOver
  /\ ~SdPending
  /\ args.mode = "daemon"
  /\ now < StartTime + MaxTime
  /\ now' = now + 1
  /\ UNCHANGED <<config, should_exit, next_run, next_run_message_time,
                 current_subprocess, proc, orphans, mainPc, op, cur, phase,
                 res, ret_create, ret_prune, sd, history>>

\* ------------------------------------------------------------ shutdown
\* Repo.stop_subprocess: whether it calls terminate() at all
StopTerminates(r) == current_subprocess[r] # "None"

\* the repositories from index i on at which a shutdown task has to wait:
\* stop_subprocess terminates the child and `await ...wait()` finds it running
HeldFrom(i) == {j \in Repos : j >= i /\ StopTerminates(j) /\ proc[j].st = "run"}

SetMin(S) == CHOOSE x \in S : \A y \in S : x <= y

\* create is in flight in run_backup_now: from its start to the start of prune
CreateInFlight ==
  /\ op \in {"daemon", "backup"}
  /\ mainPc \in {"spawning", "drain", "wait"}
  /\ phase = "create"

\* a shutdown() that flips the flag instead of setting it
ShutdownToggles(t, from) ==
  LET held == HeldFrom(from)
  IN IF held # {}
       THEN /\ proc' = [proc EXCEPT ![SetMin(held)].term = TRUE]
            /\ sd' = [sd EXCEPT ![t] = [pc |-> "waiting", i |-> SetMin(held)]]
            /\ UNCHANGED should_exit
       ELSE /\ should_exit' = ~should_exit
            /\ sd' = [sd EXCEPT ![t] = [pc |-> "done", i |-> 0]]
            /\ UNCHANGED proc

\* the repositories from index i on whose handle is still set although the
\* child has exited: main() has not yet come back from `await process.wait()`
\* to clear it
ReapedFrom(i) == {j \in Repos : j >= i /\ StopTerminates(j) /\ proc[j].st = "exited"}

\* BackupManager.shutdown from the repository of index `from` to its next
\* await or to its end: stop_subprocess on each repository in turn, then
\* should_exit = True.  For a child that has exited while its handle is set,
\* what terminate() does depends on how far the loop is with the exit: before
\* the transport is closed it sends nothing and wait() returns at once, after
\* that (transport._proc is None) it raises ProcessLookupError, which ends
\* the shutdown task.
ShutdownFrom(t, from) ==
  LET held == HeldFrom(from)
  IN \/ IF held # {}
          THEN /\ proc' = [proc EXCEPT ![SetMin(held)].term = TRUE]
               /\ sd' = [sd EXCEPT ![t] = [pc |-> "waiting", i |-> SetMin(held)]]
               /\ UNCHANGED should_exit
          ELSE /\ should_exit' = TRUE
               /\ sd' = [sd EXCEPT ![t] = [pc |-> "done", i |-> 0]]
               /\ UNCHANGED proc
     \/ /\ held = {}
        /\ ReapedFrom(from) # {}
        /\ sd' = [sd EXCEPT ![t] = [pc |-> "failed", i |-> 0]]
        /\ UNCHANGED <<should_exit, proc>>

\* signal_handler: SIGTERM, SIGINT or SIGQUIT arrives,
\* asyncio.create_task(backup_manager.shutdown()) makes a task, and the loop
\* runs it to its first await.  (A signal that arrives while main() computes
\* has its task run at main()'s next await, as one that arrives then.)
Signal ==
  /\ MainSuspended
  /\ ~SdPending
  /\ \E t \in Tasks :
       /\ sd[t].pc = "none"
       /\ \A u \in Tasks : u < t => sd[u].pc # "none"
       /\ ShutdownFrom(t, 1)
  /\ sdInCreate' = (sdInCreate \/ CreateInFlight)
  /\ UNCHANGED <<config, now, next_run, next_run_message_time,
                 current_subprocess, orphans, mainPc, op, cur, phase, res,
                 ret_create, ret_prune, started, results, retNow, lastTry,
                 fanout>>

\* a shutdown task goes on after the `await self.current_subprocess.wait()`
\* of stop_subprocess
ShutdownResume(t) ==
  /\ sd[t].pc = "woken"
  /\ MainSuspended
  /\ ~(mainPc = "wait" /\ proc[cur].st = "exited")
  /\ ShutdownFrom(t, sd[t].i + 1)
  /\ UNCHANGED <<config, now, next_run, next_run_message_time,
                 current_subprocess, orphans, mainPc, op, cur, phase, res,
                 ret_create, ret_prune, history>>

\* ----------------------------------------------------------------- Next
MainStep ==
  \/ MainDispatch
  \/ MainAfterBreakLocks
  \/ RunLoopCheck
  \/ TryRunBackup
  \/ ManagerRunBackupNow
  \/ ManagerRunCmd
  \/ ManagerBreakLocks
  \/ ForEnd
  \/ SleepDone
  \/ RunBackupNowEnter
  \/ RunPhase
  \/ AfterPhase
  \/ RunBackupNowReturn
  \/ SpawnOk
  \/ SpawnFail
  \/ DrainFail
  \/ GatherDone
  \/ WaitDone

Next ==
  \/ MainStep
  \/ \E r \in Repos : DrainStdout(r)
  \/ \E r \in Repos : DrainStderr(r)
  \/ \E r \in Repos : ProcExit(r)
  \/ \E r \in Repos : OrphanExit(r)
  \/ Tick
  \/ Signal
  \/ \E t \in Tasks : ShutdownResume(t)

Spec == Init /\ [][Next]_vars

\* ------------------------------------------------ the daemon, with fairness
\* daemon mode with every repository enabled
DaemonInit ==
  /\ Init
  /\ args.mode = "daemon"
  /\ \A r \in Repos : enabled[r]

\* what the task of main() does in daemon mode without a failure of the
\* environment
DaemonProgress ==
  \/ MainDispatch
  \/ RunLoopCheck
  \/ TryRunBackup
  \/ ForEnd
  \/ SleepDone
  \/ RunBackupNowEnter
  \/ RunPhase
  \/ AfterPhase
  \/ RunBackupNowReturn
  \/ SpawnOk
  \/ GatherDone
  \/ WaitDone

DaemonNext ==
  \/ DaemonProgress
  \/ SpawnFail
  \/ DrainFail
  \/ \E r \in Repos : DrainStdout(r)
  \/ \E r \in Repos : DrainStderr(r)
  \/ \E r \in Repos : ProcExit(r)
  \/ \E r \in Repos : OrphanExit(r)
  \/ Tick
  \/ Signal
  \/ \E t \in Tasks : ShutdownResume(t)

\* the event loop runs every task that is ready (the task of main(), a
\* shutdown task whose wait is over), the timer of asyncio.sleep fires, and
\* every child that was spawned closes its pipes and exits
Fairness ==
  /\ WF_vars(DaemonProgress)
  /\ WF_vars(\E t \in Tasks : ShutdownResume(t))
  /\ \A r \in Repos : WF_vars(DrainStdout(r))
  /\ \A r \in Repos : WF_vars(DrainStderr(r))
  /\ \A r \in Repos : WF_vars(ProcExit(r))
  /\ \A r \in Repos : WF_vars(OrphanExit(r))

FairSpec == DaemonInit /\ [][DaemonNext]_vars /\ Fairness


\* ------------------------------------------- the construction of a Repo
\* repo_general_defaults of config_defaults.py
Defaults(k) ==
  IF k = "log_level" THEN Present("INFO")
  ELSE IF k = "keep_daily" THEN Present("7")
  ELSE IF k = "dry_run" THEN Present("False")
  ELSE Absent

\* the validator _load_extract_config passes for the key: validate_log_level,
\* validate_int_positive, validate_bool, validate_ssh_key
Valid(k, v) ==
  IF k = "log_level" THEN v \in {"DEBUG", "INFO", "WARNING", "ERROR"}
  ELSE IF k = "keep_daily" THEN v \in {"3", "7"}
  ELSE IF k = "dry_run" THEN v \in {"True", "False"}
  ELSE v = "key"

\* the call of _load_extract_config that passes config_args on
PassesArgs(k) == k = "log_level"

\* hasattr(config_args, key): config_args is a mock.Mock, which has every
\* attribute
HasAttr(k) == TRUE

\* Repo._load_config_key(config, key, validator, default, config_args).
\* With config_args given, the third operand of the first test reads
\* self.config_args, an attribute a Repo does not have: AttributeError.
ResolveKey(k, default, passed) ==
  IF passed /\ HasAttr(k)
    THEN [kind |-> "raise", v |-> "AttributeError"]
    ELSE LET found == IF repo_config[k].present THEN repo_config[k]
                      ELSE IF general_config[k].present THEN general_config[k]
                      ELSE IF Defaults(k).present THEN Defaults(k)
                      ELSE IF default # "None" THEN Present(default)
                      ELSE Absent
         IN IF ~found.present THEN [kind |-> "exit", v |-> "1"]
            ELSE IF ~Valid(k, found.v) THEN [kind |-> "exit", v |-> "1"]
            ELSE [kind |-> "value", v |-> found.v]

\* `if config_args.dry_run: self.dry_run = True`
DryRunOverride(v) == v \/ config_args.dry_run

\* whether the command of a phase carries --dry-run: `if self.dry_run:` of
\* run_backup_create, run_backup_prune and run_backup_compact
CarriesDryRun(ph) == dry_run.v

\* Repo._create_borg_env: env["BORG_RSH"] = "ssh -oBatchMode=yes -i " +
\* self.ssh_key_file.  The concatenation of a str with None raises TypeError;
\* with a path the command embeds it.
CreateBorgEnv(key) ==
  IF key = "None"
    THEN [kind |-> "raise", rsh |-> <<>>]
    ELSE [kind |-> "value", rsh |-> <<"ssh", "-oBatchMode=yes", "-i", key>>]

\* what the running program keeps unchanged while a Repo is constructed
running == <<args, enabled, cron_interval_str, prune, compact, should_exit,
             now, next_run, next_run_message_time, current_subprocess, proc,
             orphans, mainPc, op, cur, phase, res, ret_create, ret_prune, sd,
             history>>

\* one call self._load_config_key(config, k, validator[, None][, config_args])
\* of _load_extract_config
LoadConfigKey(k) ==
  /\ loaded' = [loaded EXCEPT ![k] = ResolveKey(k, "None", PassesArgs(k))]
  /\ UNCHANGED <<running, config_args, repo_config, general_config, dry_run>>

\* the end of _load_extract_config: dry_run is resolved, then forced by the
\* command line
LoadDryRun ==
  /\ ~dry_run.set
  /\ LET r == ResolveKey("dry_run", "None", FALSE)
     IN /\ loaded' = [loaded EXCEPT !["dry_run"] = r]
        /\ dry_run' = IF r.kind = "value"
                        THEN [set |-> TRUE, v |-> DryRunOverride(r.v = "True")]
                        ELSE dry_run
  /\ UNCHANGED <<running, config_args, repo_config, general_config>>

\* the tables and the command line a Repo may be constructed from
RepoValues(k) ==
  IF k = "log_level" THEN {"DEBUG"}
  ELSE IF k = "keep_daily" THEN {"3", "-1"}
  ELSE IF k = "dry_run" THEN {"True", "False", "yes"}
  ELSE {"key"}

GeneralValues(k) ==
  IF k = "log_level" THEN {"WARNING"}
  ELSE IF k = "keep_daily" THEN {"7"}
  ELSE IF k = "dry_run" THEN {"True"}
  ELSE {"key"}

Slots(values) == {Absent} \cup {Present(v) : v \in values}

RepoTables ==
  {t \in [Keys -> UNION {Slots(RepoValues(k)) : k \in Keys}] :
     \A k \in Keys : t[k] \in Slots(RepoValues(k))}

GeneralTables ==
  {t \in [Keys -> UNION {Slots(GeneralValues(k)) : k \in Keys}] :
     \A k \in Keys : t[k] \in Slots(GeneralValues(k))}

ConfigInit ==
  /\ InitRun
  /\ args.mode = "daemon"
  /\ \A r \in Repos : enabled[r] /\ cron_interval_str[r] /\ prune[r] /\ compact[r]
  /\ config_args \in [dry_run : BOOLEAN, log_level : {"None", "ERROR"}]
  /\ repo_config \in RepoTables
  /\ general_config \in GeneralTables
  /\ loaded = [k \in Keys |-> Unloaded]
  /\ dry_run = [set |-> FALSE, v |-> FALSE]

ConfigNext ==
  \/ \E k \in Keys \ {"dry_run"} : LoadConfigKey(k)
  \/ LoadDryRun

ConfigSpec == ConfigInit /\ [][ConfigNext]_vars

\* ------------------------------------- run_backup_now over integer results
\* Process.returncode is the exit status of the child (0 or more) or minus
\* the number of the signal that ended it; the codes followed are those
\* from -MaxCode to MaxCode
ReturnCodes == (0 - MaxCode)..MaxCode

\* _run_async_subprocess as a whole, from its call to its return:
\* `return_code = process.returncode` (or the 1 it starts with), `return`
PhaseReturns ==
  /\ mainPc = "spawning"
  /\ \E code \in ReturnCodes : res' = code
  /\ mainPc' = "after"
  /\ UNCHANGED <<config, should_exit, now, next_run, next_run_message_time,
                 current_subprocess, proc, orphans, op, cur, phase,
                 ret_create, ret_prune, sd, history>>

\* --run-backup-once, the repositories and their policy flags as configured
AggInit ==
  /\ Init
  /\ args.mode = "backup_once"

AggNext ==
  \/ MainDispatch
  \/ ManagerRunBackupNow
  \/ RunBackupNowEnter
  \/ RunPhase
  \/ PhaseReturns
  \/ AfterPhase
  \/ RunBackupNowReturn
  \/ ForEnd
  \/ Signal

AggSpec == AggInit /\ [][AggNext]_vars

\* ============================================================ properties
\* main() is inside Repo.run_backup_now
RunPcs == {"now", "phase", "spawning", "drain", "wait", "after", "now_ret"}
InRunBackupNow == op \in {"daemon", "backup"} /\ cur \in Repos /\ mainPc \in RunPcs
\* no signal has arrived, so shutdown() was never requested
NoShutdown == \A t \in Tasks : sd[t].pc = "none"
AllPhases == <<"create", "prune", "compact">>

\* C1: when shutdown() is requested while the create phase of a
\* run_backup_now is in flight, neither prune nor compact is started in that
\* run, and run_backup_now returns exactly the result of create.
C1_ShutdownInCreateEndsRun ==
  (InRunBackupNow /\ sdInCreate) =>
    /\ \A i \in DOMAIN started : started[i] = "create"
    /\ (mainPc = "now_ret" => retNow = Value(results[1]))

\* C2: whenever shutdown() starts to run while a repository has a child
\* that was spawned and has not exited (its output may still be being read),
\* stop_subprocess sends that child a termination request.
C2_ShutdownTerminatesRunning ==
  [][(\E t \in Tasks : sd[t].pc = "none" /\ sd'[t].pc # "none") =>
       \A r \in Repos : proc[r].st = "run" => proc'[r].term]_vars

C4_ShutdownEndsRunLoop ==
  (\E t \in Tasks : sd[t].pc # "none") ~> (mainPc = "finished")

\* C5: run_backup_now on a repository with enabled = false spawns no
\* subprocess and returns 0, for recreate true or false and every combination
\* of the prune and compact flags.
C5_DisabledRunsNothing ==
  (InRunBackupNow /\ ~enabled[cur]) =>
    /\ started = <<>>
    /\ proc[cur].st = "none"
    /\ mainPc \notin {"spawning", "drain", "wait"}
    /\ (mainPc = "now_ret" => retNow = Value(0))

\* run_backup_now(recreate=True) of a disabled repository with both policy
\* flags on is about to return
C5_Witness ==
  /\ args.mode = "recreate_once" /\ op = "backup" /\ mainPc = "now_ret"
  /\ cur \in Repos /\ ~enabled[cur] /\ prune[cur] /\ compact[cur]

\* C6: a repository whose schedule is the sentinel False is never run by
\* try_run_backup: at every time the call spawns nothing, enters no run,
\* does not evaluate the schedule (next_run is never computed) and returns 0.
C6_UnscheduledNeverRun ==
  \A r \in Repos : cron_interval_str[r] = FALSE =>
    /\ ~next_run[r].set
    /\ (lastTry.repo = r =>
          lastTry.branch \in {"disabled", "unscheduled"} /\ lastTry.ret = Value(0))
    /\ (op = "daemon" /\ cur = r => mainPc \notin RunPcs /\ proc[r].st = "none")

\* try_run_backup has returned for an enabled, unscheduled repository after
\* the clock has moved
C6_Witness ==
  /\ lastTry.branch = "unscheduled"
  /\ enabled[lastTry.repo]
  /\ now > StartTime

\* started is a prefix of create, prune, compact
InOrder(s) == Len(s) <= 3 /\ \A i \in DOMAIN s : s[i] = AllPhases[i]

\* C7: within one run_backup_now of an enabled repository with prune and
\* compact on, the phases are started in the order create, prune, compact,
\* and the child of a phase is spawned only after the child of the previous
\* phase has exited: no two children of the repository run at once.
C7_PhasesInOrderNoOverlap ==
  (/\ op = "backup" /\ cur \in Repos /\ mainPc \in RunPcs
   /\ enabled[cur] /\ prune[cur] /\ compact[cur]) =>
    /\ InOrder(started)
    /\ ~(orphans[cur] /\ proc[cur].st = "run")

\* C8: with no shutdown request and both policy flags on, a create that
\* returned a non-zero result is still followed by prune and then compact.
C8_FailedCreateGoesOn ==
  (/\ InRunBackupNow /\ mainPc = "now_ret" /\ NoShutdown
   /\ enabled[cur] /\ prune[cur] /\ compact[cur]
   /\ results[1] # 0) =>
    started = AllPhases

\* a run whose create child exited with a non-zero code is about to return
C8_Witness ==
  /\ InRunBackupNow /\ mainPc = "now_ret" /\ NoShutdown
  /\ enabled[cur] /\ prune[cur] /\ compact[cur]
  /\ Len(results) = 3 /\ results[1] = 2

\* the phases an enabled repository spawns when no shutdown is requested
Expected(r) ==
  <<"create">> \o (IF prune[r] THEN <<"prune">> ELSE <<>>)
               \o (IF compact[r] THEN <<"compact">> ELSE <<>>)

\* C9: with no shutdown request, run_backup_now of an enabled repository
\* with prune = false and compact = true spawns exactly create then compact
\* and returns the sum of their results; in general a phase switched off by
\* its flag spawns nothing and contributes 0.
C9_PolicySkip ==
  (InRunBackupNow /\ mainPc = "now_ret" /\ NoShutdown /\ enabled[cur]) =>
    /\ started = Expected(cur)
    /\ Len(results) = 3
    /\ (~prune[cur] => results[2] = 0)
    /\ (~compact[cur] => results[3] = 0)
    /\ retNow = Value(results[1] + (IF prune[cur] THEN results[2] ELSE 0)
                                 + (IF compact[cur] THEN results[3] ELSE 0))

\* a run with prune off and compact on, both children failing, is about to
\* return
C9_Witness ==
  /\ InRunBackupNow /\ mainPc = "now_ret" /\ NoShutdown
  /\ enabled[cur] /\ ~prune[cur] /\ compact[cur]
  /\ started = <<"create", "compact">>
  /\ results[1] # 0 /\ results[3] # 0

\* C10: the value run_backup_now returns is the sum of the results of the
\* phases that were executed or skipped before it returned.
C10_ReturnIsSum ==
  (InRunBackupNow /\ mainPc = "now_ret") =>
    retNow = Value(SumSeq(results))

\* a run with the phase results (0, 2, 1) is about to return 3
C10_Witness ==
  /\ InRunBackupNow /\ mainPc = "now_ret"
  /\ results = <<0, 2, 1>>
  /\ retNow = Value(3)

\* C11: in each one-shot run mode (break locks, single command, backup
\* once, recreate once) main() performs the selected fan-out only and never
\* enters the daemon loop BackupManager.run().
C11_OneShotNeverEntersRun ==
  args.mode # "daemon" => (op # "daemon" /\ mainPc \notin {"while", "sleep"})

\* the repositories of S in configuration order
RECURSIVE InConfigOrder(_, _)
InConfigOrder(S, from) ==
  IF from > NumRepos THEN <<>>
  ELSE (IF from \in S THEN <<from>> ELSE <<>>) \o InConfigOrder(S, from + 1)

C14_RunLoopGoesOn ==
  args.mode = "daemon" =>
    /\ mainPc # "raised"
    /\ (NoShutdown => mainPc # "finished")

\* the create phase of a scheduled run of repository r has been started
CreateStarted(r) ==
  /\ op = "daemon" /\ cur = r /\ mainPc \in RunPcs
  /\ Len(started) >= 1 /\ started[1] = "create"

\* C15: in daemon mode, with no shutdown request and every child exiting,
\* every enabled, scheduled repository whose next_run has passed eventually
\* has its create phase started.
C15_DueRepoIsRun ==
  \A r \in Repos :
    (/\ enabled[r] /\ cron_interval_str[r] # FALSE
     /\ next_run[r].set /\ now >= next_run[r].t
     /\ NoShutdown)
      ~> (CreateStarted(r) \/ ~NoShutdown)

\* C16: after every scheduled run made by try_run_backup, next_run is the
\* first match of the schedule strictly after the time at which the run
\* completed (not after the time it became due).
C16_NextRunFromCompletion ==
  [][(op = "daemon" /\ mainPc = "now_ret" /\ mainPc' # "now_ret") =>
       /\ next_run'[cur].set
       /\ next_run'[cur].t > now
       /\ next_run'[cur].t - now <= CronPeriod
       /\ next_run'[cur].t % CronPeriod = 0]_vars

\* a scheduled run has returned so long after its due time that a whole
\* period of the schedule was passed over
C16_Witness ==
  /\ lastTry.branch = "run" /\ lastTry.ret.set
  /\ next_run[lastTry.repo].t >= NextDue(StartTime) + 2 * CronPeriod
  /\ next_run[lastTry.repo].t > now

\* the number of children that were spawned and have not exited
ChildrenRunning ==
  Cardinality({r \in Repos : proc[r].st = "run"})
    + Cardinality({r \in Repos : orphans[r]})

\* C17: in every run mode at most one child is in flight at any time, over
\* all repositories: an operation is awaited to its completion before the
\* next one starts.
C17_AtMostOneChild == ChildrenRunning <= 1

\* C18: should_exit starts false, is written only by shutdown() and only to
\* true, and once true it is true in every later state.
C18_StopFlagWriteOnce ==
  /\ should_exit = FALSE
  /\ [][/\ (should_exit => should_exit')
        /\ (should_exit' # should_exit =>
              /\ should_exit'
              /\ \E t \in Tasks : sd[t].pc # "done" /\ sd'[t].pc = "done")]_vars

\* two shutdown tasks have run to their end, each writing the flag
C18_Witness ==
  /\ should_exit
  /\ \A t \in Tasks : sd[t].pc = "done"

\* the first value present for key k in the order command line (for the key
\* the command line can give, when it is not None), repository table,
\* general table, built-in defaults
FirstPresent(k) ==
  IF k = "log_level" /\ config_args.log_level # "None"
    THEN Present(config_args.log_level)
  ELSE IF repo_config[k].present THEN repo_config[k]
  ELSE IF general_config[k].present THEN general_config[k]
  ELSE IF k = "log_level" THEN Present("INFO")
  ELSE IF k = "keep_daily" THEN Present("7")
  ELSE IF k = "dry_run" THEN Present("False")
  ELSE Absent

\* C19: the resolution of a configuration key gives the first value present
\* in the order command line, repository, general table, built-in default,
\* and ends the process when there is none (or when the value found is
\* rejected by the key's validator); resolving again gives the same.
C19_ResolutionOrder ==
  \A k \in Keys : loaded[k].kind # "unset" =>
    IF FirstPresent(k).present /\ Valid(k, FirstPresent(k).v)
      THEN loaded[k] = [kind |-> "value", v |-> FirstPresent(k).v]
      ELSE loaded[k].kind = "exit"

\* C19 for the keys resolved without the command line: the same order
\* holds for them, e.g. keep_daily 3 of the repository before 7 of the
\* general table
C19_OrderWithoutCommandLine ==
  \A k \in Keys \ {"log_level"} : loaded[k].kind # "unset" =>
    IF FirstPresent(k).present /\ Valid(k, FirstPresent(k).v)
      THEN loaded[k] = [kind |-> "value", v |-> FirstPresent(k).v]
      ELSE loaded[k].kind = "exit"

\* C20: once a Repo's dry_run is set, with the command line's dry-run flag
\* given the create, prune and compact commands all carry --dry-run
\* whatever the tables say, and with the flag not given they carry it
\* exactly when the value resolved for the key dry_run is True.
C20_DryRunForced ==
  dry_run.set =>
    /\ loaded["dry_run"].kind = "value"
    /\ config_args.dry_run =>
         \A i \in 1..Len(AllPhases) : CarriesDryRun(AllPhases[i])
    /\ ~config_args.dry_run =>
         \A i \in 1..Len(AllPhases) :
           CarriesDryRun(AllPhases[i]) <=> loaded["dry_run"].v = "True"

\* the flag is given, the repository's own dry_run is False and the general
\* one is absent or True: the commands carry --dry-run all the same
C20_Witness ==
  /\ dry_run.set
  /\ config_args.dry_run
  /\ repo_config["dry_run"] = Present("False")
  /\ loaded["dry_run"] = [kind |-> "value", v |-> "False"]
  /\ \A i \in 1..Len(AllPhases) : CarriesDryRun(AllPhases[i])

\* C21: a try_run_backup call on an enabled, scheduled repository before
\* next_run returns 0 and leaves next_run as it is, and when it moves the
\* not-due-message timestamp (a message was logged) at least ThrottleMinutes
\* lie between the old timestamp and the new one.
C21_NotDueThrottled ==
  [][(/\ mainPc = "for" /\ op = "daemon" /\ cur \in Repos
      /\ enabled[cur] /\ cron_interval_str[cur] # FALSE
      /\ next_run[cur].set /\ now < next_run[cur].t) =>
       /\ lastTry'.ret = Value(0)
       /\ next_run' = next_run
       /\ (next_run_message_time'[cur] # next_run_message_time[cur] =>
             next_run_message_time'[cur].t - next_run_message_time[cur].t
               >= ThrottleMinutes)]_vars

\* C22: in every state in which the child of a repository has been spawned
\* and has not exited, the repository's current_subprocess refers to it.
C22_HandleSetWhileRunning ==
  \A r \in Repos : proc[r].st = "run" => current_subprocess[r] = "process"

\* C23: whenever _run_async_subprocess has returned (the child exited with
\* zero or not, the spawn failed, reading the output failed),
\* current_subprocess is None: the handle is set only while main() waits for
\* the exit of the repository's child.
C23_HandleNoneBetweenRuns ==
  \A r \in Repos :
    current_subprocess[r] # "None" =>
      (cur = r /\ mainPc = "wait" /\ proc[r].st # "none")

\* a run whose handle was set (the child was ended through it by a
\* terminate()) has returned, and the handle is None again
C23_Witness ==
  /\ mainPc = "after"
  /\ res = SigTermCode
  /\ current_subprocess[cur] = "None"

\* C24: a shutdown() sets the stop flag only when stop_subprocess has been
\* called on every repository and has come back from each: it goes through
\* the repositories in their order, a flag is set only by a task that is
\* not waiting for an exit, and at that moment no repository has a child
\* that is running with its handle set.
C24_FlagAfterAllStops ==
  [][\A t \in Tasks :
       /\ (sd[t].pc # "done" /\ sd'[t].pc = "done") =>
            /\ sd[t].pc \in {"none", "woken"}
            /\ should_exit'
            /\ \A r \in Repos :
                 ~(current_subprocess[r] # "None" /\ proc[r].st = "run")
       /\ (~should_exit /\ should_exit') =>
            \E u \in Tasks : sd[u].pc # "done" /\ sd'[u].pc = "done"
       /\ (sd[t].pc = "woken" /\ sd'[t].pc = "waiting") => sd'[t].i > sd[t].i
       /\ (sd[t].pc = "waiting" /\ sd'[t] # sd[t]) =>
            (sd'[t] = [sd[t] EXCEPT !.pc = "woken"] /\ proc'[sd[t].i].st = "exited")
    ]_vars

\* a shutdown task has set the flag after it waited for the create child it
\* terminated
C24_Witness ==
  /\ should_exit
  /\ \E t \in Tasks : sd[t].pc = "done"
  /\ Len(results) >= 1 /\ results[1] = SigTermCode

\* C25: in the daemon loop, once the stop flag is true, try_run_backup is
\* not called on any repository that is left in the current sweep.
C25_FlagSeenBeforeEachRepo ==
  [][(should_exit /\ op = "daemon" /\ mainPc = "for") =>
       (lastTry' = lastTry \/ lastTry' = NoTry)]_vars

\* C26: within one run of a child, main() starts to wait for the exit only
\* when both the stdout drain and the stderr drain have reached the end of
\* their stream, and the result of the run is handed to the caller only when
\* the child has exited.
C26_DrainThenWaitThenResult ==
  [][/\ (mainPc' = "wait" => proc'[cur'].out /\ proc'[cur'].err)
     /\ (mainPc \in {"drain", "wait"} /\ mainPc' = "after") =>
          proc[cur].st = "exited"]_vars

\* the part of C26 that holds: no wait before both drains are over, and a
\* run whose drains both ended reports its result after the exit
C26_WaitAfterBothDrains ==
  [][/\ (mainPc' = "wait" => proc'[cur'].out /\ proc'[cur'].err)
     /\ (/\ mainPc \in {"drain", "wait"} /\ mainPc' = "after"
         /\ proc[cur].out /\ proc[cur].err) =>
          (proc[cur].st = "exited" /\ res' = proc[cur].rc)]_vars

\* C27: stop_subprocess on a repository whose handle is None does nothing:
\* whenever shutdown tasks run (one or several, each calling it once), such
\* a repository gets no termination request, no task waits for it, and its
\* next_run, not-due-message timestamp and handle stay as they are; the stop
\* flag is written by the end of shutdown() only.
C27_StopWithoutHandleIsNoOp ==
  [][(\E t \in Tasks : sd[t].pc \in {"none", "woken"} /\ sd'[t] # sd[t]) =>
       /\ \A r \in Repos : current_subprocess[r] = "None" =>
            /\ proc'[r] = proc[r]
            /\ \A t \in Tasks : sd'[t].pc = "waiting" /\ sd'[t] # sd[t] => sd'[t].i # r
       /\ next_run' = next_run
       /\ next_run_message_time' = next_run_message_time
       /\ current_subprocess' = current_subprocess
       /\ (should_exit' # should_exit =>
             \E t \in Tasks : sd[t].pc # "done" /\ sd'[t].pc = "done")]_vars

\* two shutdown tasks have called stop_subprocess on every repository and
\* run to their end while a child whose handle was not set kept running,
\* with no termination request
C27_Witness ==
  /\ \A t \in Tasks : sd[t].pc = "done"
  /\ \E r \in Repos :
       /\ proc[r].st = "run" /\ ~proc[r].term
       /\ current_subprocess[r] = "None"

\* C28: however many termination signals arrive, every shutdown task runs
\* to its end without an exception and with the stop flag true, and a child
\* is only ever sent the graceful terminate(): it ends with a code of its
\* own or with that of SIGTERM.
C28_SignalsAllEndShutdown ==
  /\ \A t \in Tasks : sd[t].pc # "failed"
  /\ (\E t \in Tasks : sd[t].pc = "done") => should_exit
  /\ \A r \in Repos : proc[r].st = "exited" =>
       proc[r].rc \in ExitCodes \cup (IF proc[r].term THEN {SigTermCode} ELSE {})

\* C29: the private-key path is optional: when ssh_key_file is in neither
\* table its resolution ends with a value (no key) instead of ending the
\* process, and the environment of a child is built without error, with the
\* key path in the transport command exactly when one is configured.
C29_KeyFileOptional ==
  loaded["ssh_key_file"].kind # "unset" =>
    /\ (~repo_config["ssh_key_file"].present /\ ~general_config["ssh_key_file"].present) =>
         /\ loaded["ssh_key_file"] = [kind |-> "value", v |-> "None"]
         /\ CreateBorgEnv("None").kind = "value"
         /\ "-i" \notin {CreateBorgEnv("None").rsh[i] :
                           i \in DOMAIN CreateBorgEnv("None").rsh}
    /\ loaded["ssh_key_file"].kind = "value" /\ loaded["ssh_key_file"].v # "None" =>
         CreateBorgEnv(loaded["ssh_key_file"].v).rsh =
           <<"ssh", "-oBatchMode=yes", "-i", loaded["ssh_key_file"].v>>

\* C30: while the stop flag is true, run_backup_now requests the spawn of no
\* create, prune or compact child (the test of the flag and the request are
\* in one step of main(), with no await in between), and a run_backup_now
\* that is entered with the flag true returns 0 and has spawned nothing.
C30_NoSpawnOnceStopped ==
  [][/\ (should_exit /\ op \in {"daemon", "backup"}) =>
          (started' = started \/ started' = <<>>)
     /\ (should_exit /\ mainPc = "now" /\ mainPc' # "now") =>
          /\ mainPc' = "now_ret"
          /\ retNow' = Value(0)
          /\ started' = <<>>
          /\ proc' = proc]_vars

\* a run_backup_now of an enabled repository was entered with the flag true
\* and is about to return 0 with no phase started
C30_Witness ==
  /\ InRunBackupNow /\ mainPc = "now_ret"
  /\ should_exit
  /\ enabled[cur]
  /\ started = <<>> /\ results = <<>>
  /\ retNow = Value(0)

\* C31: in the single-command and break-locks fan-outs, once the stop flag
\* is true no child is spawned for a repository that has not been processed
\* yet.
C31_FanOutStopsOnShutdown ==
  [][(should_exit /\ op \in {"cmd", "bl"}) =>
       (fanout' = fanout /\ (mainPc = "for" => mainPc' # "spawning"))]_vars

\* C32: the value run_backup_now returns is non-zero whenever one of the
\* phases it executed returned a non-zero result, whatever the signs of the
\* results are.
C32_AggregateKeepsFailure ==
  (InRunBackupNow /\ mainPc = "now_ret" /\ retNow.set) =>
    ((\E i \in DOMAIN results : results[i] # 0) => retNow.v # 0)

\* C33: when BackupManager.run() has returned after a shutdown request, no
\* child the daemon spawned is still running and every repository's
\* current_subprocess is None.
C33_NothingLeftAtReturn ==
  (args.mode = "daemon" /\ mainPc = "finished") =>
    \A r \in Repos :
      /\ proc[r].st # "run"
      /\ ~orphans[r]
      /\ current_subprocess[r] = "None"

\* the part of C33 that holds: at the return of run() no handle is set and
\* no child whose run was awaited to its end is running
C33_AwaitedChildrenGone ==
  (args.mode = "daemon" /\ mainPc = "finished") =>
    \A r \in Repos : proc[r].st # "run" /\ current_subprocess[r] = "None"

=============================================================================
